---------------------------- MODULE Spec2Model ----------------------------
(***************************************************************************)
(* A model of rankedTilesGenerator.py (sky_tiling): the tile ranker        *)
(* RankedTileGenerator (ZTF_RT, sourceTile, integrationTime and the        *)
(* resolution snapping they share) and the visibility-aware greedy         *)
(* Scheduler (tileVisibility, advanceToSunset, observationSchedule).       *)
(*                                                                         *)
(* Conventions.  numpy arrays are sequences (position 1 is numpy index 0); *)
(* tile indices keep their zero-based values.  Probabilities are exact     *)
(* numbers in hundredths (25 is 0.25, the cut 0.99 is 99).  Times are      *)
(* seconds.  Altitudes are whole degrees.                                  *)
(***************************************************************************)
EXTENDS Integers, Sequences, FiniteSets, TLC

VARIABLES
    pc,                 \* position of the call being modelled
    \* ---- RankedTileGenerator: ZTF_RT and the resolution it snaps
    nside, resolution, filename,
    requested,          \* history: the resolution argument as passed
    skymapUD,           \* the re-binned map, one value per pixel
    data,               \* the pickled tile -> pixel indices table
    tile_index_sorted, allTiles_probs_sorted,
    \* ---- RankedTileGenerator.sourceTile
    ra, dec, tileData, sourceTileOut,
    \* ---- RankedTileGenerator.integrationTime
    T_obs, pValTiles, time_per_tile,
    \* ---- Scheduler object (after __init__) and the ephemeris it queries
    tileIndices,        \* self.tileIndices : ranked zero-based tile indices
    tileProbs,          \* self.tileProbs   : their probabilities, same order
    sunEphem,           \* sun altitude on the sampling lattice of the run
    \* ---- observationSchedule: arguments and locals
    duration, integrationTime, eventTime, elapsedTime,
    thresholdTileProb, scheduled, ObsTimes, pVal_observed,
    altAz_sun,          \* sun altitude returned by the latest tileVisibility
    altAz_tile,         \* tile altitudes (ranked order) read by the latest night step
    stubVisibility      \* history: every query so far was dark with all tiles up

rankVars == <<nside, resolution, filename, requested, skymapUD, data,
              tile_index_sorted, allTiles_probs_sorted>>
srcVars == <<ra, dec, tileData, sourceTileOut>>
allocVars == <<T_obs, pValTiles, time_per_tile>>
schedVars == <<tileIndices, tileProbs, sunEphem, duration, integrationTime,
               eventTime, elapsedTime, thresholdTileProb, scheduled, ObsTimes,
               pVal_observed, altAz_sun, altAz_tile, stubVisibility>>

vars == <<pc, rankVars, srcVars, allocVars, schedVars>>

---------------------------------------------------------------------------
(* Bounds of the model *)

NTiles == 3          \* tiles in the catalog
MaxSample == 2       \* the ephemeris repeats after MaxSample+1 lattice samples
NPix == 2            \* pixels of the re-binned map
MaxResolution == 3000    \* largest requested resolution

PixVals == {0, 1, 2}
Nsides == {32, 512, 4096}
RankRequests == {0, 500}
RAs == {0, 90, 180, 270}
Decs == {-90, 0, 90}
AllocTimes == {0, 50, 1000, 5000}
AllocProbs == {0, 5, 90}

ProbVals == {26, 40, 70}
SunAlts == {-19, -18}
TileAlts == {20, 21}
Durations == {0, 100000}
IntegrationTimes == {43200, 57600, 86400}
EventTimes == {0}

(* Program constants *)

CumProbCut == 99         \* 0.99
DaySeconds == 86400      \* 24*3600
UtcOffset == -25200      \* utcoffset = -7.0 hours

---------------------------------------------------------------------------
(* numpy helpers *)

Range(s) == {s[i] : i \in DOMAIN s}

Min(S) == CHOOSE x \in S : \A y \in S : x <= y

\* sum of the first n entries
RECURSIVE SumTo(_, _)
SumTo(s, n) == IF n = 0 THEN 0 ELSE SumTo(s, n - 1) + s[n]

\* np.sum
SeqSum(s) == SumTo(s, Len(s))

\* np.cumsum
CumSum(s) == [i \in 1..Len(s) |-> SumTo(s, i)]

\* np.sum of a boolean array
CountTrue(m) == Cardinality({i \in DOMAIN m : m[i]})

\* boolean-mask indexing a[m], over the first n entries
RECURSIVE MaskTo(_, _, _)
MaskTo(a, m, n) ==
    IF n = 0 THEN <<>>
    ELSE IF m[n] THEN Append(MaskTo(a, m, n - 1), a[n])
    ELSE MaskTo(a, m, n - 1)

\* boolean-mask indexing a[m]
Mask(a, m) == MaskTo(a, m, Len(a))

\* fancy indexing a[index]
Take(a, index) == [i \in 1..Len(index) |-> a[index[i]]]

Neg(a) == [i \in 1..Len(a) |-> 0 - a[i]]

---------------------------------------------------------------------------
(* RankedTileGenerator: the resolution snapping and ZTF_RT *)

preCompDictFiles ==
    (64 :> "preComputed_pixel_indices_64.dat") @@
    (128 :> "preComputed_pixel_indices_128.dat") @@
    (256 :> "preComputed_pixel_indices_256.dat") @@
    (512 :> "preComputed_pixel_indices_512.dat") @@
    (1024 :> "preComputed_pixel_indices_1024.dat") @@
    (2048 :> "preComputed_pixel_indices_2048.dat")

RECURSIVE Exp2(_)
Exp2(n) == IF n = 0 THEN 1 ELSE 2 * Exp2(n - 1)

RECURSIVE FloorLog2(_)
FloorLog2(r) == IF r < 2 THEN 0 ELSE 1 + FloorLog2(r \div 2)

\* round(np.log(r)/np.log(2)) for a whole r >= 1: the fraction of log2(r)
\* is at least one half exactly when r*r >= 2^(2*floor + 1)
RoundLog2(r) ==
    IF r * r >= Exp2(2 * FloorLog2(r) + 1) THEN FloorLog2(r) + 1
    ELSE FloorLog2(r)

\* lines 152-157 without line 157
EffectiveNoFloor(res, ns) ==
    LET r0 == IF res = 0 THEN ns ELSE res
        r1 == Exp2(RoundLog2(r0))
    IN  IF r1 > 2048 THEN 2048 ELSE r1

\* lines 152-157 (0 stands for a resolution that is None or 0)
EffectiveResolution(res, ns) ==
    LET r0 == IF res = 0 THEN ns ELSE res
        r1 == Exp2(RoundLog2(r0))
        r2 == IF r1 > 2048 THEN 2048 ELSE r1
    IN  IF r2 < 64 THEN 64 ELSE r2

\* self.preCompDictFiles[resolution]
LookupFile(res) ==
    IF res \in DOMAIN preCompDictFiles THEN preCompDictFiles[res] ELSE "KeyError"

\* np.sum(pVal[data[ii]]) for the pixel indices px (zero-based)
RECURSIVE PixSum(_, _)
PixSum(pVal, px) ==
    IF px = {} THEN 0
    ELSE LET i == CHOOSE j \in px : TRUE
         IN  pVal[i + 1] + PixSum(pVal, px \ {i})

\* lines 169-174
AllTilesProbs(pVal, dat) == [ii \in 1..Len(dat) |-> PixSum(pVal, dat[ii])]

\* np.arange(n)
Arange(n) == [i \in 1..n |-> i - 1]

\* np.argsort(x) returning the positions as they stand
ArgsortIdentity(x) == {[i \in 1..Len(x) |-> i]}

\* np.argsort(x) applied to the probabilities instead of their negation
ArgsortAscendingProbs(x) ==
    {p \in [1..Len(x) -> 1..Len(x)] :
        /\ \A i, j \in 1..Len(x) : i # j => p[i] # p[j]
        /\ \A i, j \in 1..Len(x) : i < j => x[p[i]] >= x[p[j]]}

\* np.argsort(x) with the default kind (quicksort, not stable): any
\* arrangement of the positions that puts x in non-decreasing order.
ArgsortResults(x) ==
    {p \in [1..Len(x) -> 1..Len(x)] :
        /\ \A i, j \in 1..Len(x) : i # j => p[i] # p[j]
        /\ \A i, j \in 1..Len(x) : i < j => x[p[i]] <= x[p[j]]}

\* the parts of the state a call does not touch
RankIdle ==
    /\ nside = 0 /\ resolution = 0 /\ filename = "" /\ requested = 0
    /\ skymapUD = <<>> /\ data = <<>>
    /\ tile_index_sorted = <<>> /\ allTiles_probs_sorted = <<>>

SrcIdle == ra = 0 /\ dec = 0 /\ tileData = <<>> /\ sourceTileOut = 0

AllocIdle == T_obs = 0 /\ pValTiles = <<>> /\ time_per_tile = <<>>

SchedIdle ==
    /\ tileIndices = <<>> /\ tileProbs = <<>> /\ sunEphem = <<>>
    /\ duration = 0 /\ integrationTime = 0 /\ eventTime = 0
    /\ elapsedTime = 0 /\ thresholdTileProb = 0 /\ scheduled = <<>>
    /\ ObsTimes = <<>> /\ pVal_observed = <<>> /\ altAz_sun = 0
    /\ altAz_tile = <<>> /\ stubVisibility = TRUE

\* The resolution argument bound, before lines 152-159.
SnapInit ==
    /\ pc = "snap"
    /\ requested \in 0..MaxResolution
    /\ resolution = requested
    /\ nside \in Nsides
    /\ filename = ""
    /\ skymapUD = <<>> /\ data = <<>>
    /\ tile_index_sorted = <<>> /\ allTiles_probs_sorted = <<>>
    /\ SrcIdle /\ AllocIdle /\ SchedIdle

\* lines 152-159 (the same lines open searchedArea, 110-116)
SnapResolution ==
    /\ pc = "snap"
    /\ resolution' = EffectiveResolution(resolution, nside)
    /\ filename' = LookupFile(EffectiveResolution(resolution, nside))
    /\ pc' = IF LookupFile(EffectiveResolution(resolution, nside)) = "KeyError"
             THEN "error" ELSE "done"
    /\ UNCHANGED <<nside, requested, skymapUD, data, tile_index_sorted,
                   allTiles_probs_sorted, srcVars, allocVars, schedVars>>

SnapSpec == SnapInit /\ [][SnapResolution]_vars

\* A ranker holding a map, called with a resolution; data is the table of
\* the file the call opens.
RankInit ==
    /\ pc = "ZTF_RT"
    /\ requested \in RankRequests
    /\ resolution = requested
    /\ nside \in {512}
    /\ filename = ""
    /\ skymapUD \in [1..NPix -> PixVals]
    /\ data \in [1..NTiles -> (SUBSET (0..(NPix - 1))) \ {{}}]
    /\ tile_index_sorted = <<>> /\ allTiles_probs_sorted = <<>>
    /\ SrcIdle /\ AllocIdle /\ SchedIdle

\* ZTF_RT, lines 152-181
ZTF_RT ==
    /\ pc = "ZTF_RT"
    /\ resolution' = EffectiveResolution(resolution, nside)
    /\ filename' = LookupFile(EffectiveResolution(resolution, nside))
    /\ \E index \in ArgsortResults(Neg(AllTilesProbs(skymapUD, data))) :
          /\ allTiles_probs_sorted' = Take(AllTilesProbs(skymapUD, data), index)
          /\ tile_index_sorted' = Take(Arange(Len(data)), index)
    /\ pc' = "done"
    /\ UNCHANGED <<nside, requested, skymapUD, data, srcVars, allocVars, schedVars>>

RankSpec == RankInit /\ [][ZTF_RT]_vars

---------------------------------------------------------------------------
(* RankedTileGenerator.sourceTile *)

\* np.cos and np.sin of np.pi*a/180 for a whole number of quarter turns
CosDeg(a) ==
    CASE a % 360 = 0 -> 1
      [] a % 360 = 90 -> 0
      [] a % 360 = 180 -> -1
      [] a % 360 = 270 -> 0

SinDeg(a) == CosDeg(a - 90)

\* np.arccos, in quarter turns (0, pi/2, pi)
ArcCos(x) == CASE x = 1 -> 0 [] x = 0 -> 1 [] x = -1 -> 2

\* lines 84-88: the angular distance s from (ra, dec) to every tile centre
Separations(r, d, tiles) ==
    [i \in 1..Len(tiles) |->
        ArcCos(SinDeg(d) * SinDeg(tiles[i].dec_center)
               + CosDeg(d) * CosDeg(tiles[i].dec_center)
                 * CosDeg(tiles[i].ra_center - r))]

\* np.argmin: the first position holding the minimum
ArgMin(x) == Min({i \in 1..Len(x) : \A j \in 1..Len(x) : x[i] <= x[j]})

\* line 91 returning the ID column entry itself
sourceTileCatalogID(r, d, tiles) == tiles[ArgMin(Separations(r, d, tiles))].ID

\* lines 80-91
sourceTile(r, d, tiles) == tiles[ArgMin(Separations(r, d, tiles))].ID - 1

\* A catalog read by np.recfromtxt (ID 1, 2, ... in file order) and a point.
SrcInit ==
    /\ pc = "sourceTile"
    /\ ra \in RAs
    /\ dec \in Decs
    /\ \E c \in [1..NTiles -> RAs \X Decs] :
          tileData = [i \in 1..NTiles |->
                        [ID |-> i, ra_center |-> c[i][1], dec_center |-> c[i][2]]]
    /\ sourceTileOut = 0
    /\ RankIdle /\ AllocIdle /\ SchedIdle

SourceTileCall ==
    /\ pc = "sourceTile"
    /\ sourceTileOut' = sourceTile(ra, dec, tileData)
    /\ pc' = "done"
    /\ UNCHANGED <<ra, dec, tileData, rankVars, allocVars, schedVars>>

SrcSpec == SrcInit /\ [][SourceTileCall]_vars

---------------------------------------------------------------------------
(* RankedTileGenerator.integrationTime, with the default linear weight.    *)
(* Times are kept exactly, as multiples of 1/np.sum(fpValTiles) second:    *)
(* the entry n stands for n/TimeScale(pValTiles) seconds.                  *)

TimeScale(p) == SeqSum(p)

\* line 308 (modified_prob * T_obs)
RawTimes(T, p) == [i \in 1..Len(p) |-> p[i] * T]

\* line 309
ClampHigh(t, S) == [i \in 1..Len(t) |-> IF t[i] > 1200 * S THEN 1200 * S ELSE t[i]]

\* line 310 left out
ClampLowSkipped(t, S) == t

\* line 310
ClampLow(t, S) == [i \in 1..Len(t) |-> IF t[i] < 60 * S THEN 60 * S ELSE t[i]]

\* line 311
ObsMask(t, T, S) == [i \in 1..Len(t) |-> CumSum(t)[i] <= T * S]

\* lines 306-314; a zero sum makes every time nan, and no nan passes line 311
TimePerTile(T, p) ==
    IF TimeScale(p) = 0 THEN <<>>
    ELSE LET t == ClampLow(ClampHigh(RawTimes(T, p), TimeScale(p)), TimeScale(p))
         IN  Mask(t, ObsMask(t, T, TimeScale(p)))

AllocInit ==
    /\ pc = "integrationTime"
    /\ T_obs \in AllocTimes
    /\ pValTiles \in [1..NTiles -> AllocProbs]
    /\ time_per_tile = <<>>
    /\ RankIdle /\ SrcIdle /\ SchedIdle

IntegrationTimeCall ==
    /\ pc = "integrationTime"
    /\ time_per_tile' = TimePerTile(T_obs, pValTiles)
    /\ pc' = "done"
    /\ UNCHANGED <<T_obs, pValTiles, rankVars, srcVars, schedVars>>

AllocSpec == AllocInit /\ [][IntegrationTimeCall]_vars

---------------------------------------------------------------------------
(* Scheduler.tileVisibility and Scheduler.advanceToSunset *)

\* get_sun(time).transform_to(AltAz).alt at time t of the run's lattice
SunAltAt(t) == sunEphem[(t \div integrationTime) % (MaxSample + 1)]

isSunDownAtTwilight(alt) == alt <= -18

isSunDown(alt) == alt < -18

whichTilesUp(alts) == [i \in 1..Len(alts) |-> alts[i] > 20]

\* the three values tileVisibility returns
tileVisibility(t, alts) ==
    [tileIndices |-> Mask(tileIndices, whichTilesUp(alts)),
     tileProbs   |-> Mask(tileProbs, whichTilesUp(alts)),
     altAz_sun   |-> SunAltAt(t)]

\* a scan over two days
ScanOffsetsTwoDays(intTime) == {k * intTime : k \in 0..((2 * DaySeconds) \div intTime)}

\* dt = np.arange(0, 24*3600 + intTime, intTime)
ScanOffsets(intTime) ==
    {k * intTime : k \in {j \in 0..(DaySeconds \div intTime + 1) :
                            j * intTime < DaySeconds + intTime}}

\* the samples of the scan at which the sun is down
DarkSamples(t, intTime) ==
    {t + d : d \in {e \in ScanOffsets(intTime) : isSunDown(SunAltAt(t + e))}}

\* (eventTime + dt)[alt < -18][0] raises IndexError on an empty selection
SunsetRaises(t, intTime) == DarkSamples(t, intTime) = {}

advanceToFirstDark(t, intTime) == Min(DarkSamples(t, intTime))

advanceToSunset(t, intTime) == Min(DarkSamples(t, intTime)) - intTime

---------------------------------------------------------------------------
(* Scheduler.observationSchedule *)

includeTiles(probs) == [i \in 1..Len(probs) |-> CumSum(probs)[i] < CumProbCut]

\* includeTiles[np.sum(includeTiles)] = True is out of bounds when every
\* entry is already True
ThresholdRaises(probs) == CountTrue(includeTiles(probs)) >= Len(probs)

ThresholdTileProb(probs) ==
    LET inc == [includeTiles(probs) EXCEPT ![CountTrue(includeTiles(probs)) + 1] = TRUE]
        sel == Mask(probs, inc)
    IN  sel[Len(sel)]

\* the two tests guarding an append
AdmissibleAgain(tile, prob, sched, thr) == prob > thr

AdmissibleAtCut(tile, prob, sched, thr) ==
    /\ tile \notin Range(sched)
    /\ prob >= thr

\* line 496 left out
AdmissibleUnscheduled(tile, prob, sched, thr) == tile \notin Range(sched)

Admissible(tile, prob, sched, thr) ==
    /\ tile \notin Range(sched)
    /\ prob > thr

\* the for loop taking the last jj that passes the tests
LastAdmitted(vis, sched, thr) ==
    LET ok == {jj \in 1..Len(vis.tileIndices) :
                  Admissible(vis.tileIndices[jj], vis.tileProbs[jj], sched, thr)}
    IN  IF ok = {} THEN 0 ELSE CHOOSE jj \in ok : \A kk \in ok : kk <= jj

\* the first jj of the for loop that reaches the append (0: none does)
FirstAdmitted(vis, sched, thr) ==
    LET ok == {jj \in 1..Len(vis.tileIndices) :
                  Admissible(vis.tileIndices[jj], vis.tileProbs[jj], sched, thr)}
    IN  IF ok = {} THEN 0 ELSE Min(ok)

StubLike(sun, alts) == isSunDown(sun) /\ \A i \in 1..Len(alts) : alts[i] > 20

\* State after Scheduler.__init__ , with the arguments of the call bound.
SchedInit ==
    /\ pc = "call"
    /\ RankIdle /\ SrcIdle /\ AllocIdle
    /\ \E probs \in [1..NTiles -> ProbVals] :
         \E index \in ArgsortResults(Neg(probs)) :
            /\ tileProbs = Take(probs, index)
            /\ tileIndices = [i \in 1..NTiles |-> index[i] - 1]
    /\ sunEphem \in [0..MaxSample -> SunAlts]
    /\ duration \in Durations
    /\ integrationTime \in IntegrationTimes
    /\ eventTime \in EventTimes
    /\ elapsedTime = 0
    /\ thresholdTileProb = 0
    /\ scheduled = <<>>
    /\ ObsTimes = <<>>
    /\ pVal_observed = <<>>
    /\ altAz_sun = 0
    /\ altAz_tile = <<>>
    /\ stubVisibility = TRUE

Inputs == <<tileIndices, tileProbs, sunEphem, duration, integrationTime,
            rankVars, srcVars, allocVars>>
Outputs == <<scheduled, ObsTimes, pVal_observed>>

\* lines 450-453 raise IndexError
BeginThresholdError ==
    /\ pc = "call"
    /\ ThresholdRaises(tileProbs)
    /\ pc' = "error"
    /\ UNCHANGED <<Inputs, Outputs, eventTime, elapsedTime, thresholdTileProb,
                   altAz_sun, altAz_tile, stubVisibility>>

\* lines 450-485 with the trigger time in darkness
BeginNight ==
    /\ pc = "call"
    /\ ~ThresholdRaises(tileProbs)
    /\ ~(SunAltAt(eventTime) >= -18)
    /\ thresholdTileProb' = ThresholdTileProb(tileProbs)
    /\ altAz_sun' = SunAltAt(eventTime)
    /\ pc' = "loop"
    /\ UNCHANGED <<Inputs, Outputs, eventTime, elapsedTime, altAz_tile,
                   stubVisibility>>

\* lines 450-485 with the trigger time in daylight
BeginDaylight ==
    /\ pc = "call"
    /\ ~ThresholdRaises(tileProbs)
    /\ SunAltAt(eventTime) >= -18
    /\ ~SunsetRaises(eventTime, integrationTime)
    /\ thresholdTileProb' = ThresholdTileProb(tileProbs)
    /\ altAz_sun' = SunAltAt(eventTime)
    /\ eventTime' = advanceToSunset(eventTime, integrationTime)
    /\ stubVisibility' = FALSE
    /\ pc' = "loop"
    /\ UNCHANGED <<Inputs, Outputs, elapsedTime, altAz_tile>>

\* line 480 raises IndexError
BeginSunsetError ==
    /\ pc = "call"
    /\ ~ThresholdRaises(tileProbs)
    /\ SunAltAt(eventTime) >= -18
    /\ SunsetRaises(eventTime, integrationTime)
    /\ thresholdTileProb' = ThresholdTileProb(tileProbs)
    /\ altAz_sun' = SunAltAt(eventTime)
    /\ stubVisibility' = FALSE
    /\ pc' = "error"
    /\ UNCHANGED <<Inputs, Outputs, eventTime, elapsedTime, altAz_tile>>

\* the loop entered only with time left over
whileBeforeDuration(elapsed, dur) == elapsed < dur

\* while elapsedTime <= duration (line 487)
whileCondition(elapsed, dur) == elapsed <= dur

\* one iteration of the while loop, sun down (lines 487-516, 529-532)
NightStep ==
    /\ pc = "loop"
    /\ whileCondition(elapsedTime, duration)
    /\ isSunDown(SunAltAt(eventTime))
    /\ \E alts \in [1..NTiles -> TileAlts] :
         LET vis == tileVisibility(eventTime, alts)
             jj  == FirstAdmitted(vis, scheduled, thresholdTileProb)
         IN  /\ altAz_tile' = alts
             /\ altAz_sun' = vis.altAz_sun
             /\ stubVisibility' = (stubVisibility /\ StubLike(vis.altAz_sun, alts))
             /\ IF jj = 0
                  THEN UNCHANGED Outputs
                  ELSE /\ scheduled' = Append(scheduled, vis.tileIndices[jj])
                       /\ ObsTimes' = Append(ObsTimes, eventTime + UtcOffset)
                       /\ pVal_observed' = Append(pVal_observed, vis.tileProbs[jj])
    /\ eventTime' = eventTime + integrationTime
    /\ elapsedTime' = elapsedTime + integrationTime
    /\ UNCHANGED <<pc, Inputs, thresholdTileProb>>

\* one iteration of the while loop, sun up (lines 487-489, 518-532); the
\* tile arrays of its query are not read
DaylightStep ==
    /\ pc = "loop"
    /\ whileCondition(elapsedTime, duration)
    /\ ~isSunDown(SunAltAt(eventTime))
    /\ ~SunsetRaises(eventTime, integrationTime)
    /\ altAz_sun' = SunAltAt(eventTime)
    /\ stubVisibility' = FALSE
    /\ eventTime' = advanceToSunset(eventTime, integrationTime) + integrationTime
    /\ elapsedTime' = elapsedTime + integrationTime
    /\ UNCHANGED <<pc, Inputs, Outputs, thresholdTileProb, altAz_tile>>

\* line 522 raises IndexError
DaylightSunsetError ==
    /\ pc = "loop"
    /\ whileCondition(elapsedTime, duration)
    /\ ~isSunDown(SunAltAt(eventTime))
    /\ SunsetRaises(eventTime, integrationTime)
    /\ altAz_sun' = SunAltAt(eventTime)
    /\ stubVisibility' = FALSE
    /\ pc' = "error"
    /\ UNCHANGED <<Inputs, Outputs, eventTime, elapsedTime, thresholdTileProb,
                   altAz_tile>>

\* the loop condition fails and the arrays are returned (lines 487, 592-604)
Return ==
    /\ pc = "loop"
    /\ ~whileCondition(elapsedTime, duration)
    /\ pc' = "done"
    /\ UNCHANGED <<Inputs, Outputs, eventTime, elapsedTime, thresholdTileProb,
                   altAz_sun, altAz_tile, stubVisibility>>

Init == SchedInit

Next ==
    \/ BeginThresholdError
    \/ BeginNight
    \/ BeginDaylight
    \/ BeginSunsetError
    \/ NightStep
    \/ DaylightStep
    \/ DaylightSunsetError
    \/ Return

Spec == Init /\ [][Next]_vars

\* The interpreter keeps executing the call until it returns or raises.
FairSpec == Spec /\ WF_vars(Next)

---------------------------------------------------------------------------
(* Properties of ZTF_RT and of the resolution it uses *)

\* the sum of the map over a pixel set, pixel by pixel
CoveredSum(px) ==
    SumTo([i \in 1..Len(skymapUD) |-> IF (i - 1) \in px THEN skymapUD[i] ELSE 0],
          Len(skymapUD))

\* C6: ZTF_RT returns every tile of the table exactly once, each with the
\* sum of the re-binned map over its pixel set, in non-increasing order of
\* that sum.
C6_RankingIsPermutation ==
    pc = "done" =>
        /\ Len(tile_index_sorted) = Len(data)
        /\ Len(allTiles_probs_sorted) = Len(data)
        /\ \A t \in 0..(Len(data) - 1) :
              Cardinality({i \in 1..Len(tile_index_sorted) :
                              tile_index_sorted[i] = t}) = 1
        /\ \A i \in 1..Len(tile_index_sorted) :
              allTiles_probs_sorted[i] = CoveredSum(data[tile_index_sorted[i] + 1])
        /\ \A i, j \in 1..Len(allTiles_probs_sorted) :
              i < j => allTiles_probs_sorted[i] >= allTiles_probs_sorted[j]

\* a ranking that moved the last tile of the table to the front
C6_Witness ==
    /\ pc = "done"
    /\ Len(data) > 1
    /\ tile_index_sorted[1] = Len(data) - 1
    /\ allTiles_probs_sorted[1] > allTiles_probs_sorted[Len(data)]

\* C7 as stated: tiles of equal summed probability appear in ascending tile
\* index order.
C7_TiesAscendingId ==
    pc = "done" =>
        \A i, j \in 1..Len(tile_index_sorted) :
            (i < j /\ allTiles_probs_sorted[i] = allTiles_probs_sorted[j])
                => tile_index_sorted[i] < tile_index_sorted[j]

\* C7 amended: tiles of equal summed probability occupy consecutive ranks
\* (their order among themselves is whatever the sort leaves).
C7_TiesAdjacent ==
    pc = "done" =>
        \A i, j \in 1..Len(allTiles_probs_sorted) :
            (i < j /\ allTiles_probs_sorted[i] = allTiles_probs_sorted[j])
                => \A k \in i..j :
                      allTiles_probs_sorted[k] = allTiles_probs_sorted[i]

\* two tied tiles returned in descending tile index order, below a tile of
\* larger probability
C7_Witness ==
    /\ pc = "done"
    /\ Len(tile_index_sorted) >= 3
    /\ allTiles_probs_sorted[1] > allTiles_probs_sorted[2]
    /\ allTiles_probs_sorted[2] = allTiles_probs_sorted[3]
    /\ tile_index_sorted[2] > tile_index_sorted[3]

\* the power of two nearest to r on the logarithmic scale
NearestPow2(r) ==
    CHOOSE p \in {Exp2(n) : n \in 0..13} : p * p <= 2 * r * r /\ r * r < 2 * p * p

Clamp(x, lo, hi) == IF x < lo THEN lo ELSE IF x > hi THEN hi ELSE x

\* C9: for a requested resolution r >= 1 the resolution used is
\* clamp(2^round(log2 r), 64, 2048), one of the six keys of the table of
\* tile-index files, and the lookup finds its file; 500 gives 512, 3000
\* gives 2048, 1 gives 64.
C9_EffectiveResolution ==
    (pc \in {"done", "error"} /\ requested >= 1) =>
        /\ pc = "done"
        /\ resolution = Clamp(NearestPow2(requested), 64, 2048)
        /\ resolution \in {64, 128, 256, 512, 1024, 2048}
        /\ resolution \in DOMAIN preCompDictFiles
        /\ filename = preCompDictFiles[resolution]
        /\ (requested = 500 => resolution = 512)
        /\ (requested = 3000 => resolution = 2048)
        /\ (requested = 1 => resolution = 64)

\* a request above the largest key was snapped down to it
C9_Witness ==
    /\ pc = "done"
    /\ requested = 3000
    /\ resolution = 2048
    /\ filename = "preComputed_pixel_indices_2048.dat"

---------------------------------------------------------------------------
(* Properties of sourceTile and integrationTime *)

\* catalog rows whose centre is the point itself
RowsAtPoint ==
    {j \in 1..Len(tileData) :
        tileData[j].ra_center = ra /\ tileData[j].dec_center = dec}

\* cosine of the separation between the point and the centre of row j
CosSep(j) ==
    SinDeg(dec) * SinDeg(tileData[j].dec_center)
    + CosDeg(dec) * CosDeg(tileData[j].dec_center) * CosDeg(tileData[j].ra_center - ra)

\* C8 as stated: for a point on the centre of a catalog tile, sourceTile
\* returns that tile's ID as the ID column lists it.
C8_ReturnsCatalogID ==
    pc = "done" =>
        \A j \in RowsAtPoint :
            (\A k \in RowsAtPoint : j <= k) => sourceTileOut = tileData[j].ID

\* C8 amended: sourceTile returns the ID column entry minus one of the
\* first catalog row at minimum great-circle distance (largest cosine of the
\* separation); for a point on a tile centre that is the first row with that
\* centre's position on the sky.
C8_ReturnsNearestIndex ==
    pc = "done" =>
        \E j \in 1..Len(tileData) :
            /\ sourceTileOut = tileData[j].ID - 1
            /\ \A k \in 1..Len(tileData) : CosSep(k) <= CosSep(j)
            /\ \A k \in 1..(j - 1) : CosSep(k) < CosSep(j)
            /\ RowsAtPoint # {} => (CosSep(j) = 1 /\ j <= Min(RowsAtPoint))

\* the point is the centre of the second catalog row only, and the call
\* returned the zero-based index 1
C8_Witness ==
    /\ pc = "done"
    /\ RowsAtPoint = {2}
    /\ sourceTileOut = 1
    /\ tileData[2].ID = 2

\* the clamped time of tile i, in the units of time_per_tile
ClampedTime(i) ==
    LET S == SumTo(pValTiles, Len(pValTiles))
        t == pValTiles[i] * T_obs
    IN  IF t < 60 * S THEN 60 * S ELSE IF t > 1200 * S THEN 1200 * S ELSE t

\* C10: every returned time lies in [60, 1200] seconds, the returned times
\* are the clamped times of a prefix of the tiles, their sum does not exceed
\* T_obs, and nothing is returned when the first clamped time exceeds T_obs.
C10_AllocationBounds ==
    pc = "done" =>
        LET S == SumTo(pValTiles, Len(pValTiles))
        IN  /\ Len(time_per_tile) <= Len(pValTiles)
            /\ \A i \in 1..Len(time_per_tile) :
                  /\ 60 * S <= time_per_tile[i]
                  /\ time_per_tile[i] <= 1200 * S
                  /\ time_per_tile[i] = ClampedTime(i)
            /\ SumTo(time_per_tile, Len(time_per_tile)) <= T_obs * S
            /\ (Len(pValTiles) > 0 /\ ClampedTime(1) > T_obs * S)
                  => time_per_tile = <<>>
            /\ (S > 0 /\ time_per_tile # <<>>) => S * 60 <= T_obs * S

\* a proper, non-empty prefix was returned and its last time sits on the
\* lower clamp
C10_Witness ==
    /\ pc = "done"
    /\ 0 < Len(time_per_tile)
    /\ Len(time_per_tile) < Len(pValTiles)
    /\ time_per_tile[Len(time_per_tile)] = 60 * SumTo(pValTiles, Len(pValTiles))
    /\ time_per_tile[1] > 60 * SumTo(pValTiles, Len(pValTiles))

---------------------------------------------------------------------------
(* Properties of observationSchedule *)

\* position of a tile index in the ranked list
RankOf(tile) == CHOOSE i \in 1..Len(tileIndices) : tileIndices[i] = tile

\* number of loop iterations completed
Iterations == elapsedTime \div integrationTime

\* lengths of the ranked prefixes whose cumulative probability reaches 0.99
Prefixes99 == {k \in 1..Len(tileProbs) : SumTo(tileProbs, k) >= 99}

\* C1: across a run of observationSchedule, whatever the visibility answers,
\* no tile id appears twice in the scheduled sequence.
C1_NoTileTwice ==
    \A i, j \in 1..Len(scheduled) : i # j => scheduled[i] # scheduled[j]

\* a returned schedule of two events, the first of which was up again at the
\* final step
C1_Witness ==
    /\ pc = "done"
    /\ Len(scheduled) = 2
    /\ altAz_tile[RankOf(scheduled[1])] > 20

\* C2: every scheduled tile has probability strictly above the probability
\* of the last tile of the smallest ranked prefix reaching 0.99, and lies
\* within that prefix; its recorded probability is its ranked probability.
C2_AboveCutoff ==
    \A e \in 1..Len(scheduled) :
        /\ Prefixes99 # {}
        /\ tileProbs[RankOf(scheduled[e])] > tileProbs[Min(Prefixes99)]
        /\ RankOf(scheduled[e]) <= Min(Prefixes99)
        /\ pVal_observed[e] = tileProbs[RankOf(scheduled[e])]

\* a returned non-empty schedule that left out a tile at or below the cutoff
\* although it was up at the final step
C2_Witness ==
    /\ pc = "done"
    /\ scheduled # <<>>
    /\ \E i \in 1..Len(tileProbs) :
          /\ tileProbs[i] <= tileProbs[Min(Prefixes99)]
          /\ altAz_tile[i] > 20
          /\ tileIndices[i] \notin Range(scheduled)

\* C3: whenever a step appends an event, the sun altitude at that step's
\* eventTime is below -18 degrees, the appended tile's altitude at that time
\* is above 20 degrees, and the event carries that time.
C3_RespectsVisibility ==
    [][Len(scheduled') > Len(scheduled) =>
          /\ SunAltAt(eventTime) < -18
          /\ altAz_tile'[RankOf(scheduled'[Len(scheduled')])] > 20
          /\ ObsTimes'[Len(ObsTimes')] = eventTime + UtcOffset]_vars

\* the second-ranked tile is the only one scheduled while the first-ranked
\* tile is down
C3_Witness ==
    /\ Len(scheduled) = 1
    /\ scheduled[1] = tileIndices[2]
    /\ altAz_tile[1] = 20
    /\ altAz_tile[2] = 21

\* C4: with visibility always dark and every tile always up, the returned
\* schedule is the ranked list cut at the number of iterations or at the
\* size of the 0.99 threshold set, whichever is smaller.
C4_StubRunExhaustsThresholdSet ==
    (pc = "done" /\ stubVisibility) =>
        LET n == IF Iterations < Min(Prefixes99) THEN Iterations
                 ELSE Min(Prefixes99)
        IN  scheduled = SubSeq(tileIndices, 1, n)

\* a loop iteration taken with the sun at or above -18 degrees
DaylightIteration ==
    /\ pc = "loop"
    /\ elapsedTime <= duration
    /\ SunAltAt(eventTime) >= -18
    /\ pc' = "loop"

\* C5 as stated: every daylight step appends nothing and moves eventTime to
\* an instant strictly later than eventTime before adding integrationTime.
C5_DaylightAlwaysJumps ==
    [][DaylightIteration =>
          /\ UNCHANGED Outputs
          /\ eventTime' - integrationTime > eventTime]_vars

\* C5 amended: a daylight step appends nothing; advanceToSunset returns the
\* sample one integrationTime before the first dark sample, which is a
\* daylight sample not earlier than eventTime, so the step ends on that dark
\* sample; in the first loop step (after a pre-loop advance) the net advance
\* is exactly one integrationTime.
C5_DaylightSkip ==
    [][DaylightIteration =>
          /\ UNCHANGED Outputs
          /\ eventTime' - integrationTime >= eventTime
          /\ SunAltAt(eventTime' - integrationTime) >= -18
          /\ SunAltAt(eventTime') < -18
          /\ elapsedTime' = elapsedTime + integrationTime
          /\ (elapsedTime = 0 => eventTime' = eventTime + integrationTime)]_vars

\* the first loop step was a daylight step and the clock stands one
\* integrationTime after the trigger time
C5_Witness ==
    /\ pc = "loop"
    /\ elapsedTime = integrationTime
    /\ altAz_sun >= -18
    /\ eventTime = integrationTime

\* a loop iteration taken with the sun below -18 degrees
NightIteration ==
    /\ pc = "loop"
    /\ elapsedTime <= duration
    /\ SunAltAt(eventTime) < -18

\* the ranks of the tiles that are up under alts, not in sched and above the
\* threshold
EligibleRanks(alts, sched) ==
    {r \in 1..Len(tileIndices) :
        /\ alts[r] > 20
        /\ \A e \in 1..Len(sched) : sched[e] # tileIndices[r]
        /\ tileProbs[r] > thresholdTileProb}

\* C11: a night step in which no up tile is both unscheduled and above the
\* threshold leaves scheduled, ObsTimes and pVal_observed unchanged, raises
\* nothing, advances eventTime and elapsedTime by exactly integrationTime and
\* stays in the loop.
C11_NoEligibleTileIsNoOp ==
    [][(NightIteration /\ EligibleRanks(altAz_tile', scheduled) = {}) =>
          /\ UNCHANGED Outputs
          /\ pc' = "loop"
          /\ eventTime' = eventTime + integrationTime
          /\ elapsedTime' = elapsedTime + integrationTime
          /\ UNCHANGED thresholdTileProb]_vars

\* the latest step was a night step that appended nothing although a tile
\* was up and an earlier step had scheduled one
C11_Witness ==
    /\ pc = "loop"
    /\ elapsedTime > 0
    /\ altAz_sun < -18
    /\ \E r \in 1..Len(altAz_tile) : altAz_tile[r] > 20
    /\ scheduled # <<>>
    /\ ObsTimes[Len(ObsTimes)] # eventTime - integrationTime + UtcOffset

\* a step of observationSchedule that calls advanceToSunset (lines 476-480
\* and 518-522)
SunsetScanStep ==
    /\ \/ pc = "call" /\ ~ThresholdRaises(tileProbs)
       \/ pc = "loop" /\ elapsedTime <= duration
    /\ SunAltAt(eventTime) >= -18

\* C12 as stated: when no sample at eventTime + k*integrationTime with
\* k*integrationTime from 0 up to 24h has the sun below -18 degrees, the
\* call ends in the error state.
C12_NoSunsetWithin24hIsError ==
    [][(/\ SunsetScanStep
        /\ \A k \in 0..(DaySeconds \div integrationTime) :
              SunAltAt(eventTime + k * integrationTime) >= -18)
       => pc' = "error"]_vars

\* C12 amended: the scan samples eventTime + k*integrationTime for every
\* k*integrationTime below 24h + integrationTime; when none of these samples
\* has the sun below -18 degrees the call ends in the error state with
\* nothing appended and the clock unmoved, and no step follows an error.
C12_SunsetScanFailureIsError ==
    [][/\ (/\ SunsetScanStep
           /\ \A k \in 0..(DaySeconds \div integrationTime + 1) :
                 k * integrationTime < DaySeconds + integrationTime
                    => SunAltAt(eventTime + k * integrationTime) >= -18)
          => /\ pc' = "error"
             /\ UNCHANGED <<Outputs, eventTime, elapsedTime>>
       /\ pc = "error" => UNCHANGED vars
       /\ pc' = "done" => pc = "loop" /\ ~(elapsedTime <= duration)]_vars

\* the scan failed in the loop after an event had been scheduled
C12_Witness ==
    /\ pc = "error"
    /\ elapsedTime > 0
    /\ scheduled # <<>>
    /\ altAz_sun >= -18
    /\ \A k \in 0..(DaySeconds \div integrationTime + 1) :
          k * integrationTime < DaySeconds + integrationTime
             => SunAltAt(eventTime + k * integrationTime) >= -18

\* C13: once observationSchedule has computed it, the admission threshold is
\* the probability of a tile of the ranked list (for every non-empty list,
\* also one whose total probability is below 0.99), namely of the last tile
\* of the smallest prefix whose cumulative probability reaches 0.99, and no
\* step changes it.
C13_ThresholdAlwaysDefined ==
    pc # "call" =>
        /\ \E k \in 1..Len(tileProbs) : thresholdTileProb = tileProbs[k]
        /\ Prefixes99 # {} => thresholdTileProb = tileProbs[Min(Prefixes99)]

\* C14: a night step appends at most one event; when the step finds a tile
\* that is up, not yet scheduled and strictly above the threshold, the tile
\* it appends is the highest-ranked such tile, and it appends nothing
\* otherwise.
C14_FirstEligibleUpTile ==
    [][NightIteration =>
          LET E == EligibleRanks(altAz_tile', scheduled)
              n == Len(scheduled)
          IN  /\ Len(scheduled') \in {n, n + 1}
              /\ SubSeq(scheduled', 1, n) = scheduled
              /\ Len(ObsTimes') = Len(scheduled')
              /\ Len(pVal_observed') = Len(scheduled')
              /\ Len(scheduled') = n + 1 <=> E # {}
              /\ Len(scheduled') = n + 1 =>
                    /\ RankOf(scheduled'[n + 1]) \in E
                    /\ \A r \in E : RankOf(scheduled'[n + 1]) <= r]_vars

\* the latest step was a night step that appended the second-ranked tile
\* while the first-ranked tile, scheduled earlier, was up again
C14_Witness ==
    /\ altAz_sun < -18
    /\ Len(scheduled) = 2
    /\ ObsTimes[2] = eventTime - integrationTime + UtcOffset
    /\ scheduled[1] = tileIndices[1]
    /\ scheduled[2] = tileIndices[2]
    /\ altAz_tile[1] > 20

\* the call has left the while loop it had entered
LoopLeft == pc \in {"done", "error"} /\ elapsedTime > 0

\* C15 as stated: the loop ends by exhausting the time budget, after exactly
\* floor(duration/integrationTime) + 1 iterations, with no more events than
\* iterations.
C15_LoopAlwaysExhaustsBudget ==
    LoopLeft =>
        /\ Iterations = duration \div integrationTime + 1
        /\ Len(scheduled) <= Iterations

\* C15 amended: every call ends, by returning or by raising; each loop
\* iteration, night or daylight, adds exactly integrationTime to elapsedTime
\* whatever eventTime does, and runs only while elapsedTime <= duration; a
\* call that returns has run exactly floor(duration/integrationTime) + 1
\* iterations, a call that raises in the loop fewer, and the number of
\* scheduled events never exceeds the number of iterations run.
C15_LoopTerminates ==
    /\ [][(pc = "loop" /\ pc' = "loop") =>
             /\ elapsedTime <= duration
             /\ elapsedTime' = elapsedTime + integrationTime
             /\ eventTime' >= eventTime + integrationTime]_vars
    /\ [](/\ elapsedTime = Iterations * integrationTime
          /\ Len(scheduled) <= Iterations
          /\ Iterations <= duration \div integrationTime + 1)
    /\ [](pc = "done" => Iterations = duration \div integrationTime + 1)
    /\ [](pc = "error" => Iterations <= duration \div integrationTime)
    /\ <>(pc \in {"done", "error"})

\* a returned run of three iterations that began at night, jumped over
\* daylight in the loop and scheduled fewer events than it ran iterations
C15_Witness ==
    /\ pc = "done"
    /\ sunEphem[0] < -18
    /\ Iterations = 3
    /\ eventTime > elapsedTime
    /\ scheduled # <<>>
    /\ Len(scheduled) < Iterations

=============================================================================
